---- MODULE Spec2Model ----
(***************************************************************************)
(* HAllA synthetic data generator (halla/tools/synthetic_data.py):         *)
(* argument validation, the orthonormal base, the count-then-slice feature *)
(* partition, the per-block synthesis of X and Y, and the association      *)
(* matrix A.                                                               *)
(*                                                                         *)
(* Real numbers are fixed-point integers.  A base entry b stands for b/5,  *)
(* a noise level q for q/4 (so 0.25 is 1, 1.0 is 4 and 1.5 is 6), a normal *)
(* draw g for g standard deviations of 0.25, i.e. g/4.  An entry of X is   *)
(* counted in 1/80, an entry of Y in 1/6400 (the square of 1/80).          *)
(***************************************************************************)
EXTENDS Integers, Sequences, FiniteSets

VARIABLES argv, params, pc, err, stream, base, blocks_size, x_assoc, y_assoc, block_i,
          base_X, base_Y, sign_corr, feat_k, X, Y, A

vars == <<argv, params, pc, err, stream, base, blocks_size, x_assoc, y_assoc, block_i,
          base_X, base_Y, sign_corr, feat_k, X, Y, A>>

\* the variables of the body of the loop of line 98; feat_k counts the passes
\* made of the loop of line 102 or 110
loop_vars == <<base_X, base_Y, sign_corr, feat_k>>

(***************************************************************************)
(* Bounds of the explored inputs.                                          *)
(***************************************************************************)
MaxFeat == 2
MaxSamples == 2
MaxArgFeat == 11
MaxArgNoise == 6
MaxArgBlocks == 4
MaxDivFeat == 4

(***************************************************************************)
(* Python values of params.blocks: None, an int, or the float that the     *)
(* true division of line 48 produces (a multiple of one half).             *)
(***************************************************************************)
PyNone == [ty |-> "NoneType", twice |-> 0]

PyInt(n) == [ty |-> "int", twice |-> 2 * n]

PyHalves(h) == [ty |-> "float", twice |-> h]

Min(a, b) == IF a <= b THEN a ELSE b

\* the noise levels given to parse_argument: -0.25 up to MaxArgNoise quarters
NoiseArgs == (-1)..MaxArgNoise

Associations == {"line", "parabola", "log", "mixed", "sine", "step"}

DefaultBlocksCap == 5

\* min(5, min(xfeatures, yfeatures)/2): "/" is true division, and Python's
\* min returns its first argument unless a later one is strictly smaller.
DefaultBlocks(xf, yf) ==
    IF Min(xf, yf) < 2 * DefaultBlocksCap
        THEN PyHalves(Min(xf, yf))
        ELSE PyInt(DefaultBlocksCap)

\* params.blocks after the "is None" default of lines 47-48
BlocksOrDefault(p) ==
    IF p.blocks.ty = "NoneType" THEN DefaultBlocks(p.xfeatures, p.yfeatures) ELSE p.blocks

\* line 49 with the Y feature count forgotten
BlocksInRangeOfX(p) ==
    /\ BlocksOrDefault(p).twice > 0
    /\ BlocksOrDefault(p).twice <= 2 * p.xfeatures

\* line 49, on the value that line 48 may have set
BlocksInRange(p) ==
    /\ BlocksOrDefault(p).twice > 0
    /\ BlocksOrDefault(p).twice <= 2 * Min(p.xfeatures, p.yfeatures)

\* the first check of lines 43-54 that raises, "" when none does
ValidationError(p) ==
    IF p.samples <= 0 THEN "# samples must be > 0"
    ELSE IF p.xfeatures <= 0 \/ p.yfeatures <= 0 THEN "# features must be > 0"
    ELSE IF ~BlocksInRange(p)
        THEN "# blocks is invalid"
    ELSE IF p.noise_between < 0 \/ p.noise_between > 4
            \/ p.noise_within < 0 \/ p.noise_within > 4
        THEN "Noise within/between must be [0..1]"
    ELSE ""

\* parse_argument over the command line, and the call of the generator that
\* follows it in __main__; an exception ends the process
parse_argument ==
    /\ pc = "args"
    /\ IF ValidationError(argv) = ""
          THEN /\ params' = [argv EXCEPT !.blocks = BlocksOrDefault(argv)]
               /\ pc' = "create_base"
               /\ err' = ""
          ELSE /\ pc' = "raised"
               /\ err' = "ValueError"
               /\ UNCHANGED params
    /\ UNCHANGED <<argv, stream, base, blocks_size, x_assoc, y_assoc, block_i, X, Y, A>>
    /\ UNCHANGED loop_vars

(***************************************************************************)
(* stream is the list of the draws made on np.random so far, each named    *)
(* after the variable it feeds, with the block id a partition draw gave.   *)
(* Vectors and matrices are sequences (of sequences), indexed from 1;      *)
(* feature indices and block ids keep their 0-based values.                *)
(***************************************************************************)
\* Units.base: a base entry is counted in fifths.  In the 1/80 of X a fifth is
\* 16 and a noise level times a normal draw (1/4 * 1/4) is 5; in the 1/6400 of
\* Y a 1/80 is 80 and a noise level times a normal draw is 400.
Units == [base |-> 5, fifth |-> 16, noise |-> 5, eightieth |-> 80, noise_y |-> 400]

RECURSIVE Sum(_)
Sum(s) == IF Len(s) = 0 THEN 0 ELSE s[1] + Sum(Tail(s))

Dot(u, v) == Sum([s \in 1..Len(u) |-> u[s] * v[s]])

Abs(a) == IF a < 0 THEN -a ELSE a

Zeros(rows, cols) == [i \in 1..rows |-> [j \in 1..cols |-> 0]]

\* an entry of Y is lin/6400, plus ln(arg/80) when log is set
YZero == [log |-> FALSE, arg |-> 0, lin |-> 0]

\* ortho_group.rvs(n): the draws explored are the rotations of two
\* neighbouring axes by the angles of the 3-4-5 triangle, in fifths
CosSin == {<<5, 0>>, <<3, 4>>, <<-4, 3>>}

Givens(n, p, cs) ==
    [i \in 1..n |-> [j \in 1..n |->
        IF i = p THEN (IF j = p THEN cs[1] ELSE IF j = p + 1 THEN cs[2] ELSE 0)
        ELSE IF i = p + 1
            THEN (IF j = p THEN -cs[2] ELSE IF j = p + 1 THEN cs[1] ELSE 0)
        ELSE IF i = j THEN Units.base ELSE 0]]

OrthoGroup(n) ==
    IF n = 1 THEN {<<<<Units.base>>>>, <<<<-Units.base>>>>}
    ELSE {Givens(n, p, cs) : p \in 1..(n - 1), cs \in CosSin}

\* the outcomes of ortho_group.rvs(n): a matrix, or for n = 1 the ValueError of
\* the scipy releases that want a dimension greater than 1
OrthoRvs(n) ==
    {[ok |-> TRUE, Q |-> q] : q \in OrthoGroup(n)}
    \cup (IF n = 1 THEN {[ok |-> FALSE, Q |-> <<>>]} ELSE {})

\* np.random.normal(scale=0.25, size=1), in standard deviations
NormalDraws == {-1, 1}

\* np.random.normal(scale=0.25, size=sample_num): sample_num independent
\* draws, in standard deviations
NormalVecs(n) == [1..n -> NormalDraws]

\* base @ base.T
Gram(m) == [i \in 1..Len(m) |-> [j \in 1..Len(m) |-> Dot(m[i], m[j])]]

\* np.eye(k), in the unit of the Gram matrix
Eye(k) == [i \in 1..k |-> [j \in 1..k |-> IF i = j THEN Units.base * Units.base ELSE 0]]

\* np.testing.assert_allclose(test, np.eye(block_num), atol=1e-10): shapes must
\* agree, and an integer number of 25ths within 1e-10 of another is equal to it
AllClose(test, k) == Len(test) = k /\ test = Eye(k)

abs_if_necessary(a) ==
    IF params.association = "log" THEN [s \in 1..Len(a) |-> Abs(a[s])] ELSE a

\* block_num as the generator receives it
block_num == params.blocks.twice \div 2

\* lines 91-94: X and Y zeroed, one orthogonal matrix drawn and cut to its first
\* block_num rows, the orthonormality assertion, the absolute value for "log",
\* A zeroed; then line 75 of the first partition call.  When rvs rejects its
\* dimension it raises before it takes any number from np.random
create_base ==
    /\ pc = "create_base"
    /\ \E rvs \in OrthoRvs(params.samples) :
        LET rows == SubSeq(rvs.Q, 1, Min(block_num, params.samples))
        IN  /\ stream' = IF rvs.ok THEN Append(stream, <<"base", 0>>) ELSE stream
            /\ X' = Zeros(params.xfeatures, params.samples)
            /\ Y' = [i \in 1..params.yfeatures |-> [s \in 1..params.samples |-> YZero]]
            /\ IF ~rvs.ok
                  THEN /\ pc' = "raised"
                       /\ err' = "ValueError"
                       /\ UNCHANGED <<base, A, blocks_size>>
                  ELSE IF params.blocks.ty # "int"
                  THEN /\ pc' = "raised"
                       /\ err' = "TypeError"
                       /\ UNCHANGED <<base, A, blocks_size>>
                  ELSE IF ~AllClose(Gram(rows), block_num)
                  THEN /\ pc' = "raised"
                       /\ err' = "AssertionError"
                       /\ UNCHANGED <<base, A, blocks_size>>
                  ELSE /\ base' = [k \in 1..block_num |-> abs_if_necessary(rows[k])]
                       /\ A' = Zeros(params.xfeatures, params.yfeatures)
                       /\ blocks_size' = [k \in 1..block_num |-> 0]
                       /\ pc' = "div_x"
                       /\ err' = ""
    /\ UNCHANGED <<argv, params, x_assoc, y_assoc, block_i>>
    /\ UNCHANGED loop_vars

\* lines 80-83: block i takes the next blocks_size[i] indices
RECURSIVE SliceFrom(_, _, _)
SliceFrom(sizes, i, start_idx) ==
    IF i > Len(sizes) THEN <<>>
    ELSE <<[j \in 1..sizes[i] |-> start_idx + j - 1]>>
         \o SliceFrom(sizes, i + 1, start_idx + sizes[i])

\* lines 80-83 with the indices counted from 1
AssignIndicesFromOne(sizes) == SliceFrom(sizes, 1, 1)

\* lines 80-83 without line 83: every block starts again at index 0
AssignIndicesStuck(sizes) == [i \in 1..Len(sizes) |-> [j \in 1..sizes[i] |-> j - 1]]

AssignIndices(sizes) == SliceFrom(sizes, 1, 0)

\* line 78 tallying the block before the one drawn (Python wraps -1 to the last)
TallyOffByOne(sizes, c) == [sizes EXCEPT ![((c - 1) % Len(sizes)) + 1] = @ + 1]

\* one pass of the loop of line 78
Tally(sizes, c) == [sizes EXCEPT ![c + 1] = @ + 1]

\* div_features_into_blocks(x_feat_num), one draw of line 78 at a time; the
\* last draw is followed by lines 80-84 and by line 75 of the call for Y
div_x ==
    /\ pc = "div_x"
    /\ \E c \in 0..(block_num - 1) :
        LET sizes == Tally(blocks_size, c)
        IN  /\ stream' = Append(stream, <<"x_assoc", c>>)
            /\ IF Sum(sizes) < params.xfeatures
                  THEN /\ blocks_size' = sizes
                       /\ UNCHANGED <<x_assoc, pc>>
                  ELSE /\ x_assoc' = AssignIndices(sizes)
                       /\ blocks_size' = [k \in 1..block_num |-> 0]
                       /\ pc' = "div_y"
    /\ UNCHANGED <<argv, params, err, base, y_assoc, block_i, X, Y, A>>
    /\ UNCHANGED loop_vars

\* div_features_into_blocks(y_feat_num); the last draw is followed by lines
\* 80-84 and by the entry of the loop of line 98
div_y ==
    /\ pc = "div_y"
    /\ \E c \in 0..(block_num - 1) :
        LET sizes == Tally(blocks_size, c)
        IN  /\ stream' = Append(stream, <<"y_assoc", c>>)
            /\ IF Sum(sizes) < params.yfeatures
                  THEN /\ blocks_size' = sizes
                       /\ UNCHANGED <<y_assoc, block_i, pc>>
                  ELSE /\ y_assoc' = AssignIndices(sizes)
                       /\ blocks_size' = [k \in 1..block_num |-> 0]
                       /\ block_i' = 0
                       /\ pc' = "base_X"
    /\ UNCHANGED <<argv, params, err, base, x_assoc, X, Y, A>>
    /\ UNCHANGED loop_vars

\* base[block_i] + noise_between * normal(size=1), in 1/80
WithNoiseBetween(row, g) ==
    [s \in 1..Len(row) |-> Units.fifth * row[s] + Units.noise * params.noise_between * g]

\* where the loop of line 98 goes after line 100 or 108: into the loop over the
\* block's features, or past it when the block has none
AfterBase(feats, inside, past) == IF Len(feats) > 0 THEN inside ELSE past

\* line 100 for block block_i: base_X from one normal draw
derive_base_X ==
    /\ pc = "base_X"
    /\ \E g \in NormalDraws :
          base_X' = WithNoiseBetween(base[block_i + 1], g)
    /\ stream' = Append(stream, <<"base_X", 0>>)
    /\ feat_k' = 0
    /\ pc' = AfterBase(x_assoc[block_i + 1], "X", "base_Y")
    /\ UNCHANGED <<argv, params, err, base, blocks_size, x_assoc, y_assoc, block_i,
                   base_Y, sign_corr, X, Y, A>>

\* line 103: base_X + noise_within * normal(size=sample_num), in 1/80
WithNoiseWithin(row, noise) ==
    [s \in 1..Len(row) |-> row[s] + Units.noise * params.noise_within * noise[s]]

\* one pass of the loop of lines 102-103: the next X feature of the block
derive_X ==
    /\ pc = "X"
    /\ LET feats == x_assoc[block_i + 1]
           feat_x == feats[feat_k + 1]
       IN  /\ \E noise \in NormalVecs(params.samples) :
                 X' = [X EXCEPT ![feat_x + 1] = WithNoiseWithin(base_X, noise)]
           /\ pc' = IF feat_k + 1 < Len(feats) THEN "X" ELSE "base_Y"
    /\ stream' = Append(stream, <<"X", 0>>)
    /\ feat_k' = feat_k + 1
    /\ UNCHANGED <<argv, params, err, base, blocks_size, x_assoc, y_assoc, block_i,
                   base_X, base_Y, sign_corr, Y, A>>

\* lines 106-108 with the sign drawn after base_Y
DrawsOfBaseYSignLast == <<<<"base_Y", 0>>, <<"sign_corr", 0>>>>

\* the draws of lines 106-108, in order
DrawsOfBaseY == <<<<"sign_corr", 0>>, <<"base_Y", 0>>>>

\* lines 106-108 for block block_i: the sign, then base_Y from one normal draw
derive_base_Y ==
    /\ pc = "base_Y"
    /\ \E sign \in {-1, 1} : sign_corr' = sign
    /\ \E g \in NormalDraws :
          base_Y' = abs_if_necessary(WithNoiseBetween(base[block_i + 1], g))
    /\ stream' = stream \o DrawsOfBaseY
    /\ feat_k' = 0
    /\ pc' = AfterBase(y_assoc[block_i + 1], "Y", "update_A")
    /\ UNCHANGED <<argv, params, err, base, blocks_size, x_assoc, y_assoc, block_i,
                   base_X, X, Y, A>>

\* lines 111-116: the shape transform of one entry v of base_Y, given the
\* entry y that Y holds; "mixed", "sine" and "step" match no branch
Shape(y, v, sign) ==
    IF params.association = "line"
        THEN [log |-> FALSE, arg |-> 0, lin |-> Units.eightieth * sign * v]
    ELSE IF params.association = "parabola"
        THEN [log |-> FALSE, arg |-> 0, lin |-> sign * v * v]
    ELSE IF params.association = "log"
        THEN [log |-> TRUE, arg |-> v, lin |-> 0]
    ELSE y

\* line 117: Y[feat_y] + noise_within * normal; ln(0) is -inf, whatever is added
AddNoiseWithin(y, h) ==
    IF y.log /\ y.arg = 0 THEN y
    ELSE [y EXCEPT !.lin = @ + Units.noise_y * params.noise_within * h]

\* one pass of the loop of lines 110-117: the next Y feature of the block
derive_Y ==
    /\ pc = "Y"
    /\ LET feats == y_assoc[block_i + 1]
           feat_y == feats[feat_k + 1]
       IN  /\ \E noise \in NormalVecs(params.samples) :
                 Y' = [Y EXCEPT ![feat_y + 1] =
                         [s \in 1..params.samples |->
                             AddNoiseWithin(Shape(Y[feat_y + 1][s], base_Y[s], sign_corr),
                                            noise[s])]]
           /\ pc' = IF feat_k + 1 < Len(feats) THEN "Y" ELSE "update_A"
    /\ stream' = Append(stream, <<"Y", 0>>)
    /\ feat_k' = feat_k + 1
    /\ UNCHANGED <<argv, params, err, base, blocks_size, x_assoc, y_assoc, block_i,
                   base_X, base_Y, sign_corr, X, A>>

\* the members of a list
Range(list) == {list[k] : k \in 1..Len(list)}

\* lines 119-120 marking the whole row of every X feature of block k
MarkBlockRows(a, k) ==
    [i \in 1..Len(a) |-> [j \in 1..Len(a[i]) |->
        IF (i - 1) \in Range(x_assoc[k + 1]) THEN 1 ELSE a[i][j]]]

\* lines 119-120 for block k: the product of its X list and its Y list
MarkBlock(a, k) ==
    [i \in 1..Len(a) |-> [j \in 1..Len(a[i]) |->
        IF (i - 1) \in Range(x_assoc[k + 1]) /\ (j - 1) \in Range(y_assoc[k + 1])
            THEN 1 ELSE a[i][j]]]

\* lines 119-120, then the next pass of the loop of line 98 or the return
update_A ==
    /\ pc = "update_A"
    /\ A' = MarkBlock(A, block_i)
    /\ block_i' = block_i + 1
    /\ pc' = IF block_i + 1 < block_num THEN "base_X" ELSE "returned"
    /\ UNCHANGED <<argv, params, err, stream, base, blocks_size, x_assoc, y_assoc, X, Y>>
    /\ UNCHANGED loop_vars

(***************************************************************************)
(* Command lines.  A noise level is a number of quarters.                  *)
(***************************************************************************)
Start(p) ==
    /\ argv = p
    /\ params = <<>>
    /\ pc = "args"
    /\ err = ""
    /\ stream = <<>>
    /\ base = <<>>
    /\ blocks_size = <<>>
    /\ x_assoc = <<>>
    /\ y_assoc = <<>>
    /\ block_i = 0
    /\ base_X = <<>>
    /\ base_Y = <<>>
    /\ sign_corr = 0
    /\ feat_k = 0
    /\ X = <<>>
    /\ Y = <<>>
    /\ A = <<>>

Args(n, xf, yf, b, a, nw, nb) ==
    [samples |-> n, xfeatures |-> xf, yfeatures |-> yf, blocks |-> b,
     association |-> a, noise_within |-> nw, noise_between |-> nb]

\* noiseless runs over every table shape, noisy runs over one-feature tables
Init ==
    \/ \E n \in 1..MaxSamples, xf \in 1..MaxFeat, yf \in 1..MaxFeat,
          b \in {PyNone} \cup {PyInt(k) : k \in 1..MaxFeat}, a \in Associations :
            Start(Args(n, xf, yf, b, a, 0, 0))
    \/ \E n \in 1..MaxSamples, a \in Associations, nw \in {0, 1}, nb \in {0, 1} :
            Start(Args(n, 1, 1, PyInt(1), a, nw, nb))

Next ==
    \/ parse_argument
    \/ create_base
    \/ div_x
    \/ div_y
    \/ derive_base_X
    \/ derive_X
    \/ derive_base_Y
    \/ derive_Y
    \/ update_A

Spec == Init /\ [][Next]_vars

\* parse_argument alone, over wide command lines
InitArgs ==
    \E n \in 0..1, xf \in 0..MaxArgFeat, yf \in 0..(2 * MaxArgFeat),
       b \in {PyNone} \cup {PyInt(k) : k \in 0..MaxArgBlocks},
       nw \in NoiseArgs, nb \in NoiseArgs :
        Start(Args(n, xf, yf, b, "line", nw, nb))

NextArgs == parse_argument

SpecArgs == InitArgs /\ [][NextArgs]_vars

\* one partition call, over larger tables
InitDiv ==
    \E xf \in 1..MaxDivFeat, b \in 1..MaxDivFeat :
        Start(Args(IF b < 2 THEN 2 ELSE b, xf, xf, PyInt(b), "line", 0, 0))

NextDiv ==
    \/ parse_argument
    \/ create_base
    \/ div_x

SpecDiv == InitDiv /\ [][NextDiv]_vars

\* the scenario of six samples, four X and four Y features in two blocks
Scenario == [samples |-> 6, xfeatures |-> 4, yfeatures |-> 4, blocks |-> PyInt(2),
             association |-> "line", noise_within |-> 0, noise_between |-> 0]

InitScenario == Start(Scenario)

SpecScenario == InitScenario /\ [][Next]_vars

(***************************************************************************)
(* Properties.                                                             *)
(***************************************************************************)
IsXDraw(e) == e[1] = "x_assoc"

IsYDraw(e) == e[1] = "y_assoc"

\* the block ids drawn for the X partition and for the Y partition, in order
XDraws == SelectSeq(stream, IsXDraw)

YDraws == SelectSeq(stream, IsYDraw)

\* how many of the draws gave block c
Count(draws, c) == Cardinality({i \in 1..Len(draws) : draws[i][2] = c})

\* count[0] + ... + count[k-1]
CountBefore(draws, k) == Sum([c \in 1..k |-> Count(draws, c - 1)])

Slots(assoc) == UNION {{<<k, j>> : j \in 1..Len(assoc[k])} : k \in 1..Len(assoc)}

IsPartition(assoc, feat_num) ==
    /\ Len(assoc) = block_num
    /\ \A kj \in Slots(assoc) : assoc[kj[1]][kj[2]] \in 0..(feat_num - 1)
    /\ \A f \in 0..(feat_num - 1) :
          Cardinality({kj \in Slots(assoc) : assoc[kj[1]][kj[2]] = f}) = 1
    /\ Sum([k \in 1..Len(assoc) |-> Len(assoc[k])]) = feat_num

\* C1: whatever the draws, a returned block assignment holds every index of
\* 0..feat_num-1 in exactly one block's list, holds nothing else, and the
\* lengths of its lists sum to feat_num.
C1_PartitionExact ==
    /\ x_assoc # <<>> => IsPartition(x_assoc, params.xfeatures)
    /\ y_assoc # <<>> => IsPartition(y_assoc, params.yfeatures)

C1_Witness ==
    /\ pc = "div_y"
    /\ block_num = 3
    /\ params.xfeatures >= 3
    /\ \E k \in 1..3 : Len(x_assoc[k]) = 0
    /\ \E k \in 1..3 : Len(x_assoc[k]) >= 2

IsCountThenSlice(assoc, draws) ==
    /\ \A k \in 0..(block_num - 1) :
          assoc[k + 1] = [j \in 1..Count(draws, k) |-> CountBefore(draws, k) + j - 1]
    /\ \A k \in 1..block_num, m \in 1..block_num :
          k < m => \A i \in Range(assoc[k]), j \in Range(assoc[m]) : i < j

\* C9: block k's list is the ascending run of count[k] indices that starts at
\* count[0] + ... + count[k-1], where count tallies the draws; so the indices
\* of a block are all below those of every later block.
C9_CountThenSlice ==
    /\ x_assoc # <<>> => IsCountThenSlice(x_assoc, XDraws)
    /\ y_assoc # <<>> => IsCountThenSlice(y_assoc, YDraws)

\* a feature whose block is not the block drawn in its pass of the loop
C9_Witness ==
    /\ pc = "div_y"
    /\ \E f \in 0..(params.xfeatures - 1) :
          \E k \in 1..block_num :
              /\ f \in Range(x_assoc[k])
              /\ XDraws[f + 1][2] # k - 1

SameBlock(i, j) ==
    \E k \in 1..block_num : i \in Range(x_assoc[k]) /\ j \in Range(y_assoc[k])

\* C2: once the generator has returned, A[i][j] is 1 when X feature i and Y
\* feature j are in the lists of one block id, and 0 otherwise.
C2_AssociationMatrix ==
    pc = "returned" =>
        \A i \in 0..(params.xfeatures - 1), j \in 0..(params.yfeatures - 1) :
            A[i + 1][j + 1] = IF SameBlock(i, j) THEN 1 ELSE 0

C2_Witness ==
    /\ pc = "returned"
    /\ \E k \in 1..block_num : Len(x_assoc[k]) = 0
    /\ \E i \in 1..Len(A), j \in 1..Len(A[1]) : A[i][j] = 1
    /\ \E i \in 1..Len(A), j \in 1..Len(A[1]) : A[i][j] = 0

\* the rejection conditions, for blocks given as an int
Rejected(p) ==
    \/ p.samples <= 0
    \/ p.xfeatures <= 0 \/ p.yfeatures <= 0
    \/ p.blocks.twice < 2 \/ p.blocks.twice > 2 * Min(p.xfeatures, p.yfeatures)
    \/ p.noise_within < 0 \/ p.noise_within > 4
    \/ p.noise_between < 0 \/ p.noise_between > 4

\* C4: with blocks given, validation raises, and the generator cannot start,
\* exactly when samples <= 0, or a feature count <= 0, or blocks is outside
\* 1..min(xfeatures, yfeatures), or a noise level is outside [0,1]; every other
\* command line is passed on to the generator unchanged.
C4_ValidationExact ==
    (pc # "args" /\ argv.blocks.ty = "int") =>
        IF Rejected(argv)
            THEN pc = "raised" /\ err = "ValueError" /\ stream = <<>>
                 /\ ~ENABLED create_base
            ELSE pc = "create_base" /\ err = "" /\ params = argv
                 /\ ENABLED create_base

\* noise_within = 1.5 alone is rejected
C4_Witness ==
    /\ pc = "raised"
    /\ err = "ValueError"
    /\ argv.noise_within = 6
    /\ argv.noise_between = 1
    /\ argv.samples = 1
    /\ argv.blocks = PyInt(2)
    /\ argv.xfeatures = 2
    /\ argv.yfeatures = 3

FloorDefault(p) == Min(DefaultBlocksCap, Min(p.xfeatures, p.yfeatures) \div 2)

\* C5: with blocks omitted and positive counts, block_num becomes the integer
\* min(5, floor(min(xfeatures, yfeatures) / 2)), and the command line is accepted
\* exactly when that integer is in 1..min(xfeatures, yfeatures) and the noise
\* levels are in [0,1].
C5_IntegerDefault ==
    (pc # "args" /\ argv.blocks = PyNone
        /\ argv.samples > 0 /\ argv.xfeatures > 0 /\ argv.yfeatures > 0) =>
        IF Rejected([argv EXCEPT !.blocks = PyInt(FloorDefault(argv))])
            THEN pc = "raised" /\ err = "ValueError"
            ELSE pc = "create_base" /\ params.blocks = PyInt(FloorDefault(argv))

Unsupported == {"mixed", "sine", "step"}

\* C3: a run asked for a mixed, sine or step association fails instead of
\* returning X, Y and A with rows of Y that no shape transform made.
C3_UnsupportedFailsFast ==
    argv.association \in Unsupported => pc # "returned"

\* C7: for every association type, the base that X and Y are synthesized from
\* has a Gram matrix equal to the identity.
C7_BaseOrthonormal ==
    base # <<>> => Gram(base) = Eye(block_num)

IsBlockDraw(e) == e[1] \in {"base_X", "X", "sign_corr", "base_Y", "Y"}

\* the place of a draw in an order of the three stages before the block loop
Stage(e, order) ==
    IF IsBlockDraw(e) THEN 4
    ELSE CHOOSE r \in 1..3 : order[r] = e[1]

\* the draws are made stage by stage in the given order
InStages(order) ==
    \A i \in 1..(Len(stream) - 1) :
        Stage(stream[i], order) <= Stage(stream[i + 1], order)

\* delta_x, one noise vector per X feature, sign, delta_y, one noise vector per
\* Y feature, for the blocks k..block_num in turn
RECURSIVE BlockDrawsFrom(_)
BlockDrawsFrom(k) ==
    IF k > block_num THEN <<>>
    ELSE <<"base_X">> \o [m \in 1..Len(x_assoc[k]) |-> "X"]
         \o <<"sign_corr", "base_Y">> \o [m \in 1..Len(y_assoc[k]) |-> "Y"]
         \o BlockDrawsFrom(k + 1)

BlockDrawsMade == [i \in 1..Len(SelectSeq(stream, IsBlockDraw)) |->
                      SelectSeq(stream, IsBlockDraw)[i][1]]

Ones(a) == Cardinality({ij \in (1..Len(a)) \X (1..Len(a[1])) : a[ij[1]][ij[2]] = 1})

BlocksThenA ==
    pc = "returned" =>
        /\ BlockDrawsMade = BlockDrawsFrom(1)
        /\ Ones(A) = Sum([k \in 1..block_num |-> Len(x_assoc[k]) * Len(y_assoc[k])])

\* C10, as claimed: the X partition is drawn first, then the Y partition, the
\* base only after both, then the draws of each block in turn (delta_x, X
\* noise, sign, delta_y, Y noise), and A is filled from the same partitions.
C10_PartitionsBeforeBase ==
    /\ InStages(<<"x_assoc", "y_assoc", "base">>)
    /\ BlocksThenA

\* C10, amended: the base is drawn first, then the X partition, then the Y
\* partition, then the draws of each block in turn (delta_x, X noise, sign,
\* delta_y, Y noise), and A is filled from the same partitions.
C10_BaseBeforePartitions ==
    /\ InStages(<<"base", "x_assoc", "y_assoc">>)
    /\ stream # <<>> => stream[1][1] = "base"
    /\ Len(YDraws) > 0 => Len(XDraws) = params.xfeatures
    /\ BlocksThenA

C10_Witness ==
    /\ pc = "returned"
    /\ block_num = 2
    /\ Len(x_assoc[1]) = 1
    /\ Len(x_assoc[2]) = 1
    /\ Len(y_assoc[2]) = 2

TwoByTwo == <<<<1, 1, 0, 0>>, <<1, 1, 0, 0>>, <<0, 0, 1, 1>>, <<0, 0, 1, 1>>>>

\* C8, as claimed: in the scenario the returned A is two 2x2 blocks of ones on
\* the diagonal and zero elsewhere, whatever the draws.
C8_AlwaysTwoByTwo ==
    pc = "returned" => A = TwoByTwo

\* C8, amended: in the scenario the returned A is 1 exactly on the rectangle
\* of the first a X features and first c Y features and on the rectangle of
\* the remaining ones, where a and c count the X and Y draws that gave block
\* 0 (each from 0 to 4); it is the two 2x2 blocks only when a = 2 and c = 2.
C8_TwoRectangles ==
    pc = "returned" =>
        /\ \A i \in 0..3, j \in 0..3 :
              A[i + 1][j + 1] =
                  IF \/ i < Count(XDraws, 0) /\ j < Count(YDraws, 0)
                     \/ i >= Count(XDraws, 0) /\ j >= Count(YDraws, 0)
                  THEN 1 ELSE 0
        /\ A = TwoByTwo <=> (Count(XDraws, 0) = 2 /\ Count(YDraws, 0) = 2)

C8_Witness ==
    /\ pc = "returned"
    /\ argv = Scenario
    /\ Count(XDraws, 0) = 3
    /\ Count(YDraws, 0) = 1
    /\ A = <<<<1, 0, 0, 0>>, <<1, 0, 0, 0>>, <<1, 0, 0, 0>>, <<0, 1, 1, 1>>>>

====
